---------------------------- MODULE Spec2Model ----------------------------
(***************************************************************************)
(* Model of cloud/amazon/sts_assume_role.py: main() and                    *)
(* assume_role_policy(client, module).                                     *)
(*                                                                         *)
(* The model starts after line 157, where AnsibleModule(argument_spec)     *)
(* has accepted the parameters.  module.fail_json and module.exit_json     *)
(* emit one result and leave the process (sys.exit), so neither returns.   *)
(*                                                                         *)
(* Python values that may be None are encoded as tuples: None is << >>     *)
(* and a value v is <<v>>.  "x is not None" is x # PyNone.                 *)
(***************************************************************************)
EXTENDS Integers, Sequences, FiniteSets, TLC

VARIABLES HAS_BOTO3, params, pc, region, conn, client, calls, response, results

vars == <<HAS_BOTO3, params, pc, region, conn, client, calls, response, results>>

MaxInvocations == 2

PyNone == << >>

Some(v) == <<v>>

Unbound == "<unbound>"

(* ---------------- input spaces ---------------- *)

RoleArns == {"arn:aws:iam::123456789012:role/someRole", "arn:aws:iam::123456789012:role/otherRole"}

RoleSessionNames == {"someRoleSession"}

Policies == {"{policy-document}"}

Durations == {900, 7200}

ExternalIds == {"external-1"}

MfaSerials == {"arn:aws:iam::123456789012:mfa/user"}

MfaTokens == {"123456"}

Optional(S) == {PyNone} \cup {Some(v) : v \in S}

(* lines 144-157: role_arn and role_session_name are required,              *)
(* duration_seconds is type='int', the others are optional, default None.   *)
ArgumentSpec ==
    [role_arn          : {Some(v) : v \in RoleArns},
     role_session_name : {Some(v) : v \in RoleSessionNames},
     duration_seconds  : Optional(Durations),
     external_id       : Optional(ExternalIds),
     policy            : Optional(Policies),
     mfa_serial_number : Optional(MfaSerials),
     mfa_token         : Optional(MfaTokens)]

(* the parameter sets used when several invocations run side by side *)
ConcurrentParams ==
    {p \in ArgumentSpec :
        \/ /\ p.duration_seconds = PyNone /\ p.external_id = PyNone /\ p.policy = PyNone
           /\ p.mfa_token = PyNone
        \/ /\ p.duration_seconds = Some(900) /\ p.external_id # PyNone /\ p.policy # PyNone
           /\ p.mfa_serial_number # PyNone /\ p.mfa_token # PyNone
           /\ p.role_arn = Some("arn:aws:iam::123456789012:role/otherRole")}

Regions == {"<None>", "us-east-1"}

(* ---------------- the client collaborator ---------------- *)

Payload(k) ==
    [Credentials     |-> [AccessKeyId     |-> <<"AccessKeyId", k>>,
                          SecretAccessKey |-> <<"SecretAccessKey", k>>,
                          SessionToken    |-> <<"SessionToken", k>>,
                          Expiration      |-> <<"Expiration", k>>],
     AssumedRoleUser |-> [Arn             |-> <<"Arn", k>>,
                          AssumedRoleId   |-> <<"AssumedRoleId", k>>]]

Payloads == {Payload(k) : k \in {1, 2}}

FaultMessages == {"AccessDenied", "MultiFactorAuthentication failed"}

ClientError(m) == [type |-> "ClientError", text |-> m]

(* an exception of the client that is not a ClientError, for example       *)
(* botocore's ParamValidationError or EndpointConnectionError              *)
OtherError(m) == [type |-> "BotoCoreError", text |-> m]

NoResponse == [kind |-> "none"]

Returned(v) == [kind |-> "return", value |-> v]

Raised(e) == [kind |-> "raise", exc |-> e]

Responses ==
    {Returned(v) : v \in Payloads}
        \cup {Raised(ClientError(m)) : m \in FaultMessages}
        \cup {Raised(OtherError("Parameter validation failed"))}

ConnectMessage == "could not construct the sts client"

(* what boto3_conn does at line 166: it returns the client, raises a       *)
(* ClientError, or raises an exception that is not a ClientError, for      *)
(* example botocore's ProfileNotFound or a ValueError for a bad endpoint   *)
ConnResponses ==
    {Returned("sts"),
     Raised(ClientError(ConnectMessage)),
     Raised(OtherError("The config profile could not be found"))}

(* ---------------- the module runtime ---------------- *)

Str(t) == [type |-> "str", text |-> t]

(* str(e) *)
StrOf(e) == Str(e.text)

FailJson(m) == [call |-> "fail_json", kwargs |-> [msg |-> m]]

ExitJson(kw) == [call |-> "exit_json", kwargs |-> kw]

(* ---------------- assume_role_policy, lines 99-121 ---------------- *)

SetItem(d, k, v) == [x \in (DOMAIN d) \cup {k} |-> IF x = k THEN v ELSE d[x]]

(* variant: the key is always sent, a None parameter as a null value *)
SetEvenIfNone(d, k, v) == SetItem(d, k, v)

SetIfNotNone(d, k, v) == IF v # PyNone THEN SetItem(d, k, v) ELSE d

AssumeRoleArgs(p) ==
    LET a0 == [RoleArn |-> p.role_arn, RoleSessionName |-> p.role_session_name]
        a1 == SetIfNotNone(a0, "Policy", p.policy)
        a2 == SetIfNotNone(a1, "DurationSeconds", p.duration_seconds)
        a3 == SetIfNotNone(a2, "ExternalId", p.external_id)
        a4 == SetIfNotNone(a3, "SerialNumber", p.mfa_serial_number)
    IN  SetIfNotNone(a4, "TokenCode", p.mfa_token)

(* ---------------- assume_role_policy, lines 130-139 ---------------- *)

(* variant: access_key and secret_key taken from each other's field *)
StsCredsSwapped(assumed_role) ==
    [access_key    |-> assumed_role.Credentials.SecretAccessKey,
     secret_key    |-> assumed_role.Credentials.AccessKeyId,
     session_token |-> assumed_role.Credentials.SessionToken,
     expiration    |-> assumed_role.Credentials.Expiration]

StsCreds(assumed_role) ==
    [access_key    |-> assumed_role.Credentials.AccessKeyId,
     secret_key    |-> assumed_role.Credentials.SecretAccessKey,
     session_token |-> assumed_role.Credentials.SessionToken,
     expiration    |-> assumed_role.Credentials.Expiration]

StsUser(assumed_role) ==
    [arn            |-> assumed_role.AssumedRoleUser.Arn,
     assume_role_id |-> assumed_role.AssumedRoleUser.AssumedRoleId]

(* ---------------- state ---------------- *)

Invocations == DOMAIN pc

InitOver(I, P) ==
    /\ HAS_BOTO3 \in BOOLEAN
    /\ params \in [I -> P]
    /\ pc = [i \in I |-> "check_boto3"]
    /\ region = [i \in I |-> Unbound]
    /\ conn = [i \in I |-> NoResponse]
    /\ client = [i \in I |-> Unbound]
    /\ calls = [i \in I |-> << >>]
    /\ response = [i \in I |-> NoResponse]
    /\ results = [i \in I |-> << >>]

Init == InitOver({1}, ArgumentSpec)

InitConcurrent == InitOver(1 .. MaxInvocations, ConcurrentParams)

(* variant: the missing SDK is not checked *)
CheckBoto3Ignored(i) ==
    /\ pc[i] = "check_boto3"
    /\ pc' = [pc EXCEPT ![i] = "conn_info"]
    /\ UNCHANGED <<HAS_BOTO3, params, region, conn, client, calls, response, results>>

(* ---------------- main, lines 159-160 ---------------- *)
CheckBoto3(i) ==
    /\ pc[i] = "check_boto3"
    /\ IF ~HAS_BOTO3
       THEN /\ results' = [results EXCEPT ![i] = Append(@, FailJson(Str("boto3 required for this module")))]
            /\ pc' = [pc EXCEPT ![i] = "exited"]
       ELSE /\ pc' = [pc EXCEPT ![i] = "conn_info"]
            /\ UNCHANGED results
    /\ UNCHANGED <<HAS_BOTO3, params, region, conn, client, calls, response>>

(* ---------------- main, line 162 ---------------- *)
GetAwsConnectionInfo(i) ==
    /\ pc[i] = "conn_info"
    /\ \E r \in Regions : region' = [region EXCEPT ![i] = r]
    /\ pc' = [pc EXCEPT ![i] = "connect"]
    /\ UNCHANGED <<HAS_BOTO3, params, conn, client, calls, response, results>>

(* ---------------- main, lines 164-170 ---------------- *)
(* boto3_conn is called for a truthy region only.  Line 167 handles a      *)
(* ClientError by fail_json(msg=str(e)); any other exception leaves main   *)
(* uncaught.  client is assigned only when boto3_conn returns.             *)
Connect(i) ==
    /\ pc[i] = "connect"
    /\ IF region[i] # "<None>"
       THEN \E c \in ConnResponses :
               /\ conn' = [conn EXCEPT ![i] = c]
               /\ IF c.kind = "return"
                  THEN /\ client' = [client EXCEPT ![i] = c.value]
                       /\ pc' = [pc EXCEPT ![i] = "invoke"]
                       /\ UNCHANGED results
                  ELSE IF c.exc.type = "ClientError"
                       THEN /\ results' = [results EXCEPT ![i] = Append(@, FailJson(StrOf(c.exc)))]
                            /\ pc' = [pc EXCEPT ![i] = "exited"]
                            /\ UNCHANGED client
                       ELSE /\ pc' = [pc EXCEPT ![i] = "crashed"]
                            /\ UNCHANGED <<client, results>>
       ELSE /\ results' = [results EXCEPT ![i] = Append(@, FailJson(Str("region must be specified")))]
            /\ pc' = [pc EXCEPT ![i] = "exited"]
            /\ UNCHANGED <<conn, client>>
    /\ UNCHANGED <<HAS_BOTO3, params, region, calls, response>>

(* variant: the request map is kept at module level and built once, from  *)
(* the parameters of the first invocation                                  *)
AssumeRoleCallSharedArgs(i) ==
    /\ pc[i] = "invoke"
    /\ calls' = [calls EXCEPT ![i] = Append(@, AssumeRoleArgs(params[1]))]
    /\ pc' = [pc EXCEPT ![i] = "awaiting"]
    /\ UNCHANGED <<HAS_BOTO3, params, region, conn, client, response, results>>

(* ---------------- assume_role_policy, lines 99-125: the request goes out ---- *)
AssumeRoleCall(i) ==
    /\ pc[i] = "invoke"
    /\ calls' = [calls EXCEPT ![i] = Append(@, AssumeRoleArgs(params[i]))]
    /\ pc' = [pc EXCEPT ![i] = "awaiting"]
    /\ UNCHANGED <<HAS_BOTO3, params, region, conn, client, response, results>>

(* variant: the handler of main calls the client a second time after a     *)
(* ClientError                                                             *)
AssumeRoleReturnRetrying(i) ==
    /\ pc[i] = "awaiting"
    /\ \E r \in Responses :
        /\ response' = [response EXCEPT ![i] = r]
        /\ IF r.kind = "return"
           THEN /\ results' = [results EXCEPT ![i] =
                       Append(@, ExitJson([changed   |-> TRUE,
                                           sts_creds |-> StsCreds(r.value),
                                           sts_user  |-> StsUser(r.value)]))]
                /\ pc' = [pc EXCEPT ![i] = "exited"]
                /\ UNCHANGED calls
           ELSE IF r.exc.type = "ClientError" /\ Len(calls[i]) < 2
                THEN /\ calls' = [calls EXCEPT ![i] = Append(@, AssumeRoleArgs(params[i]))]
                     /\ UNCHANGED <<pc, results>>
                ELSE /\ pc' = [pc EXCEPT ![i] = "crashed"]
                     /\ UNCHANGED <<results, calls>>
    /\ UNCHANGED <<HAS_BOTO3, params, region, conn, client>>

(* ---------------- assume_role_policy, lines 125-141, and main, 172-175 ------ *)
(* The call returns a payload or raises.  A ClientError is handled at      *)
(* line 127 by fail_json(msg=e), which passes the exception object, not    *)
(* str(e).  Any other exception matches neither handler and leaves main.   *)
AssumeRoleReturn(i) ==
    /\ pc[i] = "awaiting"
    /\ \E r \in Responses :
        /\ response' = [response EXCEPT ![i] = r]
        /\ IF r.kind = "return"
           THEN /\ results' = [results EXCEPT ![i] =
                       Append(@, ExitJson([changed   |-> TRUE,
                                           sts_creds |-> StsCreds(r.value),
                                           sts_user  |-> StsUser(r.value)]))]
                /\ pc' = [pc EXCEPT ![i] = "exited"]
           ELSE IF r.exc.type = "ClientError"
                THEN /\ results' = [results EXCEPT ![i] = Append(@, FailJson(r.exc))]
                     /\ pc' = [pc EXCEPT ![i] = "exited"]
                ELSE /\ pc' = [pc EXCEPT ![i] = "crashed"]
                     /\ UNCHANGED results
    /\ UNCHANGED <<HAS_BOTO3, params, region, conn, client, calls>>

Next ==
    \E i \in Invocations :
        \/ CheckBoto3(i)
        \/ GetAwsConnectionInfo(i)
        \/ Connect(i)
        \/ AssumeRoleCall(i)
        \/ AssumeRoleReturn(i)

Spec == Init /\ [][Next]_vars

SpecConcurrent == InitConcurrent /\ [][Next]_vars

Ended(i) == pc[i] \in {"exited", "crashed"}

(* ======================= properties ======================= *)

MinDurationSeconds == 900

MaxDurationSeconds == 3600

ExpectedKeys(p) ==
    {"RoleArn", "RoleSessionName"}
        \cup (IF p.policy # PyNone THEN {"Policy"} ELSE {})
        \cup (IF p.duration_seconds # PyNone THEN {"DurationSeconds"} ELSE {})
        \cup (IF p.external_id # PyNone THEN {"ExternalId"} ELSE {})
        \cup (IF p.mfa_serial_number # PyNone THEN {"SerialNumber"} ELSE {})
        \cup (IF p.mfa_token # PyNone THEN {"TokenCode"} ELSE {})

RequestMatches(a, p) ==
    /\ DOMAIN a = ExpectedKeys(p)
    /\ \A k \in DOMAIN a : a[k] # PyNone
    /\ a["RoleArn"] = p.role_arn
    /\ a["RoleSessionName"] = p.role_session_name
    /\ "Policy" \in DOMAIN a => a["Policy"] = p.policy
    /\ "DurationSeconds" \in DOMAIN a => a["DurationSeconds"] = p.duration_seconds
    /\ "ExternalId" \in DOMAIN a => a["ExternalId"] = p.external_id
    /\ "SerialNumber" \in DOMAIN a => a["SerialNumber"] = p.mfa_serial_number
    /\ "TokenCode" \in DOMAIN a => a["TokenCode"] = p.mfa_token

(* C1: every request passed to assume_role has exactly the keys RoleArn,   *)
(* RoleSessionName and the mapped key of each non-None optional parameter, *)
(* each with the parameter's value; a None parameter is no key at all, and *)
(* each optional parameter is decided on its own.                          *)
C1_RequestKeys ==
    \A i \in Invocations : \A n \in 1 .. Len(calls[i]) :
        RequestMatches(calls[i][n], params[i])

C1_Witness ==
    \E i \in Invocations :
        /\ Len(calls[i]) = 1
        /\ params[i].mfa_serial_number # PyNone
        /\ params[i].mfa_token = PyNone
        /\ params[i].policy # PyNone
        /\ params[i].external_id = PyNone
        /\ "SerialNumber" \in DOMAIN calls[i][1]
        /\ "TokenCode" \notin DOMAIN calls[i][1]

(* C2: an invocation that constructed the client calls assume_role exactly *)
(* once: no invocation calls twice, and one that has ended, or has a       *)
(* response, has called once.                                              *)
C2_ExactlyOneCall ==
    \A i \in Invocations :
        /\ Len(calls[i]) <= 1
        /\ (client[i] = "sts" /\ Ended(i)) => Len(calls[i]) = 1
        /\ response[i] # NoResponse => Len(calls[i]) = 1

C2_Witness ==
    \E i \in Invocations :
        /\ pc[i] = "exited"
        /\ response[i] = Raised(ClientError("AccessDenied"))
        /\ Len(calls[i]) = 1

(* C3: after a success payload the one result is exit_json with            *)
(* changed=true, sts_creds equal to the payload's four Credentials fields  *)
(* and sts_user equal to the payload's two AssumedRoleUser fields.         *)
C3_SuccessMapping ==
    \A i \in Invocations :
        response[i].kind = "return" =>
            LET v == response[i].value IN
            results[i] =
                << [call   |-> "exit_json",
                    kwargs |-> [changed   |-> TRUE,
                                sts_creds |-> [access_key    |-> v.Credentials.AccessKeyId,
                                               secret_key    |-> v.Credentials.SecretAccessKey,
                                               session_token |-> v.Credentials.SessionToken,
                                               expiration    |-> v.Credentials.Expiration],
                                sts_user  |-> [arn            |-> v.AssumedRoleUser.Arn,
                                               assume_role_id |-> v.AssumedRoleUser.AssumedRoleId]]] >>

C3_Witness ==
    \E i \in Invocations :
        /\ pc[i] = "exited"
        /\ response[i] = Returned(Payload(2))
        /\ Len(results[i]) = 1

(* C4: after a ClientError with message M the one result is a failure      *)
(* whose msg is the string M, with no sts_creds and no sts_user.           *)
C4_FailureMessageIsM ==
    \A i \in Invocations :
        (response[i].kind = "raise" /\ response[i].exc.type = "ClientError") =>
            results[i] = << [call |-> "fail_json", kwargs |-> [msg |-> Str(response[i].exc.text)]] >>

(* C5: with duration_seconds outside 900..3600 the client is never called  *)
(* and the invocation ends in a failure.                                   *)
C5_OutOfRangeDurationRejected ==
    \A i \in Invocations :
        (/\ params[i].duration_seconds # PyNone
         /\ params[i].duration_seconds[1] \notin MinDurationSeconds .. MaxDurationSeconds) =>
            /\ calls[i] = << >>
            /\ Ended(i) => (Len(results[i]) = 1 /\ results[i][1].call = "fail_json")

(* C6: when the region is not resolved, or boto3_conn raised instead of    *)
(* returning a client, assume_role is never called and the invocation ends *)
(* in one failure outcome.                                                 *)
C6_NoCallWithoutClient ==
    \A i \in Invocations :
        (region[i] = "<None>" \/ conn[i].kind = "raise") =>
            /\ calls[i] = << >>
            /\ response[i] = NoResponse
            /\ pc[i] \in {"connect", "exited"}
            /\ pc[i] = "exited" =>
                  /\ Len(results[i]) = 1
                  /\ results[i][1].call = "fail_json"
                  /\ DOMAIN results[i][1].kwargs = {"msg"}

FullSuccess(r) ==
    /\ r.call = "exit_json"
    /\ DOMAIN r.kwargs = {"changed", "sts_creds", "sts_user"}
    /\ r.kwargs.changed = TRUE
    /\ DOMAIN r.kwargs.sts_creds = {"access_key", "secret_key", "session_token", "expiration"}
    /\ DOMAIN r.kwargs.sts_user = {"arn", "assume_role_id"}

FailureOnly(r) ==
    /\ r.call = "fail_json"
    /\ DOMAIN r.kwargs = {"msg"}

(* C7: every invocation that has ended has exactly one outcome, a full     *)
(* success or a failure carrying only a message.                           *)
C7_OneOutcome ==
    \A i \in Invocations :
        /\ Len(results[i]) <= 1
        /\ \A n \in 1 .. Len(results[i]) : FullSuccess(results[i][n]) \/ FailureOnly(results[i][n])
        /\ Ended(i) => Len(results[i]) = 1

(* C8: no fault raised by assume_role leaves main uncaught; each one ends  *)
(* in a failure outcome.                                                   *)
C8_NoFaultEscapes ==
    \A i \in Invocations :
        response[i].kind = "raise" =>
            /\ pc[i] = "exited"
            /\ Len(results[i]) = 1
            /\ results[i][1].call = "fail_json"

(* C9: under any interleaving, the request an invocation sends is built    *)
(* from its own parameters, the outcome it reports comes from its own      *)
(* response, and a step of one invocation changes nothing of another.      *)
C9_OwnState ==
    \A i \in Invocations :
        /\ \A n \in 1 .. Len(calls[i]) : RequestMatches(calls[i][n], params[i])
        /\ response[i].kind = "return" =>
              /\ Len(results[i]) = 1
              /\ results[i][1].kwargs.sts_creds.access_key = response[i].value.Credentials.AccessKeyId
              /\ results[i][1].kwargs.sts_creds.session_token = response[i].value.Credentials.SessionToken
              /\ results[i][1].kwargs.sts_user.arn = response[i].value.AssumedRoleUser.Arn
        /\ (response[i].kind = "raise" /\ Len(results[i]) > 0) =>
              results[i][1].kwargs.msg.text = response[i].exc.text

C9_StepIsLocal ==
    \E i \in Invocations :
        \A j \in Invocations \ {i} :
            /\ pc'[j] = pc[j]
            /\ params'[j] = params[j]
            /\ region'[j] = region[j]
            /\ conn'[j] = conn[j]
            /\ client'[j] = client[j]
            /\ calls'[j] = calls[j]
            /\ response'[j] = response[j]
            /\ results'[j] = results[j]

C9_Independent == [](C9_OwnState) /\ [][C9_StepIsLocal /\ HAS_BOTO3' = HAS_BOTO3]_vars

C9_Witness ==
    \E i \in Invocations : \E j \in Invocations :
        /\ i # j
        /\ pc[i] = "exited" /\ pc[j] = "exited"
        /\ params[i] # params[j]
        /\ calls[i] # calls[j]
        /\ response[i].kind = "return"
        /\ response[j].kind = "raise"
        /\ Len(results[i]) = 1 /\ Len(results[j]) = 1

(* C10: when HAS_BOTO3 is false the invocation fails with 'boto3 required  *)
(* for this module' and neither resolves the connection information, nor   *)
(* constructs a client, nor calls assume_role.                             *)
C10_Boto3Required ==
    ~HAS_BOTO3 =>
        \A i \in Invocations :
            /\ region[i] = Unbound
            /\ client[i] = Unbound
            /\ calls[i] = << >>
            /\ pc[i] \in {"check_boto3", "exited"}
            /\ pc[i] = "exited" => results[i] = << FailJson(Str("boto3 required for this module")) >>

C10_Witness ==
    \E i \in Invocations :
        /\ ~HAS_BOTO3
        /\ pc[i] = "exited"
        /\ Len(results[i]) = 1

=============================================================================
